---- MODULE Spec2Model ----
(***************************************************************************)
(* Model of Py/day-02.py: the report parser (the `data` comprehension),    *)
(* is_safe, and the two safe_count sums with their prints.                 *)
(* Text is a sequence of one-character strings; Python's 0-based indices   *)
(* are shifted to TLA+'s 1-based sequences.                                *)
(***************************************************************************)
EXTENDS Integers, Sequences, FiniteSets

\* ---------------------------------------------------------------- bounds
MaxLen == 4      \* longest single-row file of one-digit levels
MaxDigit == 5    \* largest one-digit level in those files
MaxChars == 5    \* longest free-form file over FreeChars

\* ------------------------------------------------------------ text model
NL == "\n"
SP == " "
Whitespace == {SP, NL}
DigitChars == <<"0", "1", "2", "3", "4", "5", "6", "7", "8", "9">>

IsDigit(c) == \E d \in 1..10 : DigitChars[d] = c
DigitVal(c) == (CHOOSE d \in 1..10 : DigitChars[d] = c) - 1

\* str.strip(): drop leading and trailing whitespace
RECURSIVE lstrip(_)
lstrip(s) == IF s # <<>> /\ Head(s) \in Whitespace THEN lstrip(Tail(s)) ELSE s

RECURSIVE rstrip(_)
rstrip(s) ==
    IF s # <<>> /\ s[Len(s)] \in Whitespace
        THEN rstrip(SubSeq(s, 1, Len(s) - 1))
        ELSE s

strip(s) == rstrip(lstrip(s))

\* str.split(sep) with an explicit separator: empty pieces are kept
RECURSIVE split(_, _)
split(s, sep) ==
    LET hits == {i \in 1..Len(s) : s[i] = sep}
    IN  IF hits = {}
            THEN <<s>>
            ELSE LET p == CHOOSE i \in hits : \A j \in hits : i <= j
                 IN  <<SubSeq(s, 1, p - 1)>> \o split(SubSeq(s, p + 1, Len(s)), sep)

\* int(y) accepts an optional sign followed by at least one digit
Unsigned(y) == IF y # <<>> /\ y[1] \in {"-", "+"} THEN Tail(y) ELSE y
IsIntLiteral(y) == Unsigned(y) # <<>> /\ \A i \in 1..Len(Unsigned(y)) : IsDigit(Unsigned(y)[i])

RECURSIVE Magnitude(_)
Magnitude(ds) ==
    IF ds = <<>> THEN 0
    ELSE 10 * Magnitude(SubSeq(ds, 1, Len(ds) - 1)) + DigitVal(ds[Len(ds)])

int(y) == IF y[1] = "-" THEN 0 - Magnitude(Unsigned(y)) ELSE Magnitude(Unsigned(y))

NonEmpty(y) == y # <<>>

\* mutant: a tokenizer that silently drops tokens int() would reject
tokens_skip(x) == SelectSeq(split(strip(x), SP), IsIntLiteral)

\* x.strip().split(" ") if y
tokens(x) == SelectSeq(split(strip(x), SP), NonEmpty)

\* open(...).read().strip().split("\n")
lines(f) == split(strip(f), NL)

\* -------------------------------------------------------------- is_safe
StepSet(row) == {row[i + 1] - row[i] : i \in 1..(Len(row) - 1)}

\* mutant: the last consecutive pair is left out of the differences
is_safe_short(row) ==
    LET inc == {row[i + 1] - row[i] : i \in 1..(Len(row) - 2)}
    IN  inc \subseteq {1, 2, 3} \/ inc \subseteq {-1, -2, -3}

\* mutant: an empty set of increments is treated as falsy
is_safe_truthy(row) ==
    LET inc == StepSet(row)
    IN  inc # {} /\ (inc \subseteq {1, 2, 3} \/ inc \subseteq {-1, -2, -3})

\* mutant: a zero step is admitted in the increasing bound set
is_safe_flat(row) ==
    LET inc == StepSet(row)
    IN  inc \subseteq {0, 1, 2, 3} \/ inc \subseteq {-1, -2, -3}

\* mutant: steps of magnitude four are admitted
is_safe_wide(row) ==
    LET inc == StepSet(row)
    IN  inc \subseteq {1, 2, 3, 4} \/ inc \subseteq {-1, -2, -3, -4}

\* mutant: the bound is checked on the magnitude only, not per direction
is_safe_abs(row) ==
    LET inc == StepSet(row)
    IN  inc \subseteq ({1, 2, 3} \cup {-1, -2, -3})

is_safe(row) ==
    LET inc == StepSet(row)
        is_positive_safe == inc \subseteq {1, 2, 3}
        is_negative_safe == inc \subseteq {-1, -2, -3}
    IN  is_positive_safe \/ is_negative_safe

\* row[:i] + row[i + 1:], i being the 1-based position of the removed element
Remove(row, i) == SubSeq(row, 1, i - 1) \o SubSeq(row, i + 1, Len(row))

\* any(list)
Any(bs) == \E j \in 1..Len(bs) : bs[j]

\* --------------------------------------------------------------- inputs
FreeChars == {"1", "-", "x", SP, NL}

\* one row of one-digit levels separated by single spaces
RowFiles ==
    UNION { { [k \in 1..(2 * n - 1) |->
                 IF k % 2 = 1 THEN DigitChars[r[(k + 1) \div 2] + 1] ELSE SP]
              : r \in [1..n -> 0..MaxDigit] }
            : n \in 1..MaxLen }

FreeFiles == UNION { [1..n -> FreeChars] : n \in 0..MaxChars }

ExampleFile ==
    <<"7", SP, "6", SP, "4", SP, "2", SP, "1", NL,
      "1", SP, "2", SP, "7", SP, "8", SP, "9", NL,
      "9", SP, "7", SP, "6", SP, "2", SP, "1", NL,
      "1", SP, "3", SP, "2", SP, "4", SP, "5", NL,
      "8", SP, "6", SP, "4", SP, "4", SP, "1", NL,
      "1", SP, "3", SP, "6", SP, "7", SP, "9", NL>>

Files == RowFiles \cup FreeFiles \cup {ExampleFile}

\* ---------------------------------------------------------------- state
VARIABLES
    file,        \* contents of ../inputs/input-02.txt
    pc,          \* "parse", "part1", "part2", "done" or "error"
    idx,         \* position of the next line (parse) or row (part1, part2)
    data,        \* rows parsed so far
    err,         \* the uncaught exception, if any
    acc,         \* running total inside sum(...)
    safe_count,  \* the name both sums are bound to
    output,      \* the numbers printed so far
    nat,         \* is_safe(row) as yielded to the first sum, row by row
    act,         \* any([...]) as yielded to the second sum, row by row
    results,     \* the inner list comprehension of the current row
    cand         \* position of the next element to remove

vars == <<file, pc, idx, data, err, acc, safe_count, output, nat, act, results, cand>>

NoError == [type |-> "none", literal |-> <<>>]

Init ==
    /\ file \in Files
    /\ pc = "parse"
    /\ idx = 1
    /\ data = <<>>
    /\ err = NoError
    /\ acc = 0
    /\ safe_count = 0
    /\ output = <<>>
    /\ nat = <<>>
    /\ act = <<>>
    /\ results = <<>>
    /\ cand = 1

\* one iteration of the outer comprehension of `data`
ParseLine ==
    /\ pc = "parse"
    /\ idx <= Len(lines(file))
    /\ LET toks == tokens(lines(file)[idx])
           bad == {i \in 1..Len(toks) : ~IsIntLiteral(toks[i])}
       IN  IF bad = {}
              THEN /\ data' = Append(data, [i \in 1..Len(toks) |-> int(toks[i])])
                   /\ idx' = IF idx = Len(lines(file)) THEN 1 ELSE idx + 1
                   /\ pc' = IF idx = Len(lines(file)) THEN "part1" ELSE "parse"
                   /\ err' = err
              ELSE /\ pc' = "error"
                   /\ err' = [type |-> "ValueError",
                              literal |-> toks[CHOOSE i \in bad : \A j \in bad : i <= j]]
                   /\ UNCHANGED <<data, idx>>
    /\ UNCHANGED <<file, acc, safe_count, output, nat, act, results, cand>>

\* one item of the generator feeding the first sum
Part1Row ==
    /\ pc = "part1"
    /\ idx <= Len(data)
    /\ nat' = Append(nat, is_safe(data[idx]))
    /\ acc' = acc + (IF is_safe(data[idx]) THEN 1 ELSE 0)
    /\ idx' = idx + 1
    /\ UNCHANGED <<file, pc, data, err, safe_count, output, act, results, cand>>

\* the first sum is bound and printed
Print1 ==
    /\ pc = "part1"
    /\ idx > Len(data)
    /\ safe_count' = acc
    /\ output' = Append(output, acc)
    /\ acc' = 0
    /\ idx' = 1
    /\ pc' = "part2"
    /\ UNCHANGED <<file, data, err, nat, act, results, cand>>

\* mutant: the candidate loop stops at the first safe candidate
MoreCandsLazy == cand <= Len(data[idx]) /\ ~Any(results)

\* for i in range(len(row)): is there a next i
MoreCands == cand <= Len(data[idx])

\* one element of the inner list comprehension
Part2Cand ==
    /\ pc = "part2"
    /\ idx <= Len(data)
    /\ MoreCands
    /\ results' = Append(results, is_safe(Remove(data[idx], cand)))
    /\ cand' = cand + 1
    /\ UNCHANGED <<file, pc, idx, data, err, acc, safe_count, output, nat, act>>

\* any(...) over the finished list, yielded to the second sum
Part2Any ==
    /\ pc = "part2"
    /\ idx <= Len(data)
    /\ ~MoreCands
    /\ act' = Append(act, Any(results))
    /\ acc' = acc + (IF Any(results) THEN 1 ELSE 0)
    /\ results' = <<>>
    /\ cand' = 1
    /\ idx' = idx + 1
    /\ UNCHANGED <<file, pc, data, err, safe_count, output, nat>>

\* the second sum is bound and printed
Print2 ==
    /\ pc = "part2"
    /\ idx > Len(data)
    /\ safe_count' = acc
    /\ output' = Append(output, acc)
    /\ pc' = "done"
    /\ UNCHANGED <<file, idx, data, err, acc, nat, act, results, cand>>

Next == ParseLine \/ Part1Row \/ Print1 \/ Part2Cand \/ Part2Any \/ Print2

Spec == Init /\ [][Next]_vars

\* ------------------------------------------------------ claim vocabulary
Diff(row, i) == row[i + 1] - row[i]
Steps(row) == 1..(Len(row) - 1)
Abs(n) == IF n < 0 THEN 0 - n ELSE n
Sign(n) == IF n > 0 THEN 1 ELSE IF n < 0 THEN 0 - 1 ELSE 0
Judged == 1..Len(nat)
Tolerated == 1..Len(act)
HasBadToken ==
    \E l \in 1..Len(lines(file)) :
        \E t \in 1..Len(split(lines(file)[l], SP)) :
            /\ NonEmpty(split(lines(file)[l], SP)[t])
            /\ ~IsIntLiteral(split(lines(file)[l], SP)[t])

\* C1: is_safe(R) is true exactly when every consecutive difference of R is
\* in {1,2,3} or every one is in {-1,-2,-3}; a zero step, a step of absolute
\* value above 3, or steps of both signs each make the verdict false.
T1_StepSetContract ==
    \A k \in Judged :
        LET R == data[k]
        IN  /\ nat[k] <=> \/ \A i \in Steps(R) : Diff(R, i) \in {1, 2, 3}
                          \/ \A i \in Steps(R) : Diff(R, i) \in {-1, -2, -3}
            /\ (\E i \in Steps(R) : Diff(R, i) = 0) => ~nat[k]
            /\ (\E i \in Steps(R) : Diff(R, i) > 3 \/ Diff(R, i) < -3) => ~nat[k]
            /\ (\E i, j \in Steps(R) : Diff(R, i) > 0 /\ Diff(R, j) < 0) => ~nat[k]

W1_SafeAndUnsafeJudged ==
    \E k, m \in Judged :
        /\ Len(data[k]) >= 3 /\ nat[k]
        /\ Len(data[m]) >= 3 /\ ~nat[m]
        /\ \E i \in Steps(data[m]) : Diff(data[m], i) > 3

\* C2 (as stated): the one-removal verdict of a report is true exactly when
\* the report is safe as given or some single deletion leaves a safe report.
CE2_RemovalVerdictIff ==
    \A k \in Tolerated :
        act[k] <=> \/ is_safe(data[k])
                   \/ \E i \in 1..Len(data[k]) : is_safe(Remove(data[k], i))

\* C3 (as stated): every report judged safe as given, the empty one included,
\* is judged safe by the one-removal check.
CE3_SafeImpliesTolerated ==
    \A k \in Tolerated : nat[k] => act[k]

\* C4: the empty report and every one-element report are judged safe, and
\* judging them raises no error.
T4_ShortReportsSafe ==
    /\ \A k \in Judged : Len(data[k]) <= 1 => nat[k]
    /\ pc \in {"part1", "part2", "done"} => err = NoError

W4_EmptyAndSingletonJudged ==
    \E k, m \in Judged :
        /\ Len(data[k]) = 0 /\ nat[k]
        /\ Len(data[m]) = 1 /\ nat[m]

\* C5: a report holding the same value at two distinct positions, adjacent
\* or not, is judged unsafe.
T5_RepeatedValueUnsafe ==
    \A k \in Judged :
        (\E i, j \in 1..Len(data[k]) : i # j /\ data[k][i] = data[k][j]) => ~nat[k]

W5_DistantRepeatJudged ==
    \E k \in Judged :
        /\ \E i, j \in 1..Len(data[k]) : j > i + 1 /\ data[k][i] = data[k][j]
        /\ \A i \in Steps(data[k]) : Diff(data[k], i) # 0
        /\ ~nat[k]

\* C6 (as stated): on the six example reports the program prints 2 first
\* (rows 1 and 6 are safe as given) and 4 second (rows 1, 3, 4 and 6 are safe
\* with one removal).
CE6_ExampleRows1346 ==
    file = ExampleFile =>
        /\ Len(output) >= 1 => output[1] = 2
        /\ pc = "done" =>
            /\ output = <<2, 4>>
            /\ nat = <<TRUE, FALSE, FALSE, FALSE, FALSE, TRUE>>
            /\ act = <<TRUE, FALSE, TRUE, TRUE, FALSE, TRUE>>

\* C6 (amended): on the six example reports the program prints 2 first (rows
\* 1 and 6 are safe as given) and 4 second, the rows safe with one removal
\* being rows 1, 4, 5 and 6.
T6_ExampleCounts ==
    file = ExampleFile =>
        /\ Len(output) >= 1 => output[1] = 2
        /\ pc = "done" =>
            /\ output = <<2, 4>>
            /\ nat = <<TRUE, FALSE, FALSE, FALSE, FALSE, TRUE>>
            /\ act = <<TRUE, FALSE, FALSE, TRUE, TRUE, TRUE>>

W6_ExampleFinished == file = ExampleFile /\ pc = "done" /\ Len(output) = 2

\* C7 (as stated): a non-numeric token ends the run with a ParseError that
\* names the offending line.
CE7_ParseErrorNamesLine ==
    pc = "error" => err.type = "ParseError" /\ err.literal = lines(file)[idx]

\* C7 (amended): a non-numeric token ends the run with a ValueError that
\* names the offending token; nothing is printed, the rows before the
\* offending line are all that was parsed, and no later step runs.
T7_ValueErrorNamesToken ==
    /\ pc = "error" =>
        /\ err.type = "ValueError"
        /\ NonEmpty(err.literal) /\ ~IsIntLiteral(err.literal)
        /\ \E t \in 1..Len(split(lines(file)[idx], SP)) :
               split(lines(file)[idx], SP)[t] = err.literal
        /\ Len(data) = idx - 1
        /\ output = <<>> /\ nat = <<>> /\ act = <<>>
        /\ ~ENABLED Next
    /\ HasBadToken => pc \in {"parse", "error"} /\ output = <<>>
    /\ pc \in {"part1", "part2", "done"} => Len(data) = Len(lines(file))

W7_FailedOnLaterLine ==
    /\ pc = "error"
    /\ idx > 1
    /\ err.literal # lines(file)[idx]

\* C8 (as stated): once a candidate deletion has been found safe, is_safe is
\* not evaluated on a later candidate of the same report.
CE8_ShortCircuit ==
    \A j \in 1..Len(results) : results[j] => j = Len(results)

\* C8 (amended): the verdict of a report is produced only after is_safe has
\* been evaluated on all len(R) candidate deletions, in index order, also
\* when an earlier candidate was already safe.
T8_AllCandidatesEvaluated ==
    [][ /\ act' # act => Len(results) = Len(data[idx])
        /\ results' # results /\ results' # <<>> =>
               /\ Len(results') = Len(results) + 1
               /\ Len(results') = cand ]_vars

W8_EvaluatedAfterSuccess ==
    \E j \in 1..Len(results) : results[j] /\ j < Len(results)

\* C9: is_safe agrees with the explicit check that every step has absolute
\* value between 1 and 3 and that all steps of the report have one sign.
T9_ExplicitPredicate ==
    \A k \in Judged :
        LET R == data[k]
        IN  nat[k] <=> /\ \A i \in Steps(R) : 1 <= Abs(Diff(R, i)) /\ Abs(Diff(R, i)) <= 3
                       /\ \A i, j \in Steps(R) : Sign(Diff(R, i)) = Sign(Diff(R, j))

W9_BoundedButMixedSign ==
    \E k \in Judged :
        /\ \A i \in Steps(data[k]) : Abs(Diff(data[k], i)) \in 1..3
        /\ \E i, j \in Steps(data[k]) : Sign(Diff(data[k], i)) # Sign(Diff(data[k], j))
        /\ ~nat[k]

\* C10 (as stated): for every file that parses, blank lines included, the
\* first printed count is never greater than the second.
CE10_FirstCountAtMostSecond ==
    pc = "done" => output[1] <= output[2]

====
